---- MODULE Spec2Model ----
(***************************************************************************)
(* Model of the Hack assembler (src/src/lib.rs, src/src/main.rs).          *)
(*                                                                         *)
(* A Rust string is modelled as a sequence of one-character strings, so    *)
(* that split, starts_with, contains, parse::<i32> and format! are         *)
(* computed character by character as the standard library computes them. *)
(* A HashMap is a function whose DOMAIN is the key set.  A function that   *)
(* can panic (unwrap on None or Err) returns a record with a panic flag.   *)
(***************************************************************************)
EXTENDS Integers, Sequences, FiniteSets, TLC

VARIABLES
    pc,              \* position of the driver / of the unit test
    predef_file,     \* lines of predefined_symbols.txt
    asm_file,        \* lines of the .asm source of the assembled unit
    symbol_map,      \* SymbolTable.symbol_map
    idx,             \* position of the buf_reader.lines() iterator (1-based)
    line_num,        \* parse_file: line_num
    next_mem,        \* parse_file: next_mem
    intm_file,       \* lines written to the .intm file
    writer,          \* main: words held in the BufWriter of the .hack file
    bin_file,        \* words that reached the .hack file
    unwrapped_line,  \* main / tests: the line handed to parse_line
    parsed_line,     \* main / tests: fields returned by parse_line
    info_map,        \* main / tests: flags returned by parse_line
    bin_line         \* main / tests: the string returned by decode

vars == <<pc, predef_file, asm_file, symbol_map, idx, line_num, next_mem,
          intm_file, writer, bin_file, unwrapped_line, parsed_line,
          info_map, bin_line>>

(***************************************************************************)
(* Bounds of the model.                                                    *)
(***************************************************************************)
MaxLines == 3     \* longest .asm file
MaxFields == 3    \* longest field vector handed to CDecoder::decode

(***************************************************************************)
(* Standard-library string operations.                                     *)
(***************************************************************************)
MaxI32 == 2147483647

Digits == <<"0", "1", "2", "3", "4", "5", "6", "7", "8", "9">>

DigitVal(c) == (CHOOSE k \in 1..10 : Digits[k] = c) - 1

IsDigit(c) == \E k \in 1..10 : Digits[k] = c

Range(s) == {s[k] : k \in 1..Len(s)}

\* str::starts_with(|c| c in cs)
StartsWith(s, cs) == Len(s) > 0 /\ s[1] \in cs

\* str::contains(c)
Contains(s, c) == \E k \in 1..Len(s) : s[k] = c

RECURSIVE SplitRec(_, _, _, _)
SplitRec(s, seps, k, cur) ==
    IF k > Len(s) THEN <<cur>>
    ELSE IF s[k] \in seps THEN <<cur>> \o SplitRec(s, seps, k + 1, <<>>)
    ELSE SplitRec(s, seps, k + 1, Append(cur, s[k]))

\* str::split(|c| c in seps).collect(): n separators give n+1 pieces,
\* empty pieces included
Split(s, seps) == SplitRec(s, seps, 1, <<>>)

\* Vec::truncate(n)
Truncate(v, n) == IF Len(v) > n THEN SubSeq(v, 1, n) ELSE v

RECURSIVE TrimLeftMatches(_, _)
\* str::trim_left_matches(c): removes every leading occurrence of c
TrimLeftMatches(s, c) ==
    IF Len(s) > 0 /\ s[1] = c THEN TrimLeftMatches(Tail(s), c) ELSE s

RECURSIVE ParseDigits(_, _, _)
ParseDigits(s, k, acc) ==
    IF k > Len(s) THEN [ok |-> TRUE, val |-> acc]
    ELSE IF ~IsDigit(s[k]) THEN [ok |-> FALSE, val |-> 0]
    ELSE IF acc > (MaxI32 - DigitVal(s[k])) \div 10 THEN [ok |-> FALSE, val |-> 0]
    ELSE ParseDigits(s, k + 1, acc * 10 + DigitVal(s[k]))

\* str::parse::<i32>(): an optional sign, then at least one decimal digit;
\* Err on an empty string, a foreign character or a value outside i32.
\* (-2147483648 itself is not representable here and is reported as Err.)
ParseI32(s) ==
    IF Len(s) = 0 THEN [ok |-> FALSE, val |-> 0]
    ELSE IF s[1] \in {"+", "-"}
         THEN IF Len(s) = 1 THEN [ok |-> FALSE, val |-> 0]
              ELSE LET r == ParseDigits(Tail(s), 1, 0)
                   IN  IF r.ok /\ s[1] = "-" THEN [ok |-> TRUE, val |-> 0 - r.val]
                       ELSE r
         ELSE ParseDigits(s, 1, 0)

RECURSIVE ToDecimalNat(_)
ToDecimalNat(n) ==
    IF n < 10 THEN <<Digits[n + 1]>>
    ELSE ToDecimalNat(n \div 10) \o <<Digits[(n % 10) + 1]>>

\* format!("{}", n) of an i32
ToDecimal(n) == IF n < 0 THEN <<"-">> \o ToDecimalNat(0 - n) ELSE ToDecimalNat(n)

RECURSIVE ToBinNat(_)
ToBinNat(n) ==
    IF n < 2 THEN <<Digits[n + 1]>>
    ELSE ToBinNat(n \div 2) \o <<Digits[(n % 2) + 1]>>

RECURSIVE PadLeft(_, _)
PadLeft(s, w) == IF Len(s) >= w THEN s ELSE PadLeft(<<"0">> \o s, w)

\* format!("{:015b}", n) of an i32: the binary digits, zero-padded to a
\* MINIMUM width of 15; a negative n prints its 32-bit two's complement
Format015b(n) ==
    IF n >= 0 THEN PadLeft(ToBinNat(n), 15)
    ELSE <<"1">> \o PadLeft(ToBinNat((n + MaxI32) + 1), 31)

\* HashMap::insert
Insert(map, k, v) ==
    [x \in (DOMAIN map) \cup {k} |-> IF x = k THEN v ELSE map[x]]

EmptyMap == [x \in {} |-> 0]

(***************************************************************************)
(* The mnemonic dictionaries of CDecoder (dest_file.txt, comp_file.txt,    *)
(* jump_file.txt), with the entries the unit tests c_decode_* pin down.    *)
(***************************************************************************)
dest_map ==
    (<<"M">> :> <<"0", "0", "1">>) @@ (<<"M", "D">> :> <<"0", "1", "1">>)

comp_map ==
    (<<"0">> :> <<"0", "1", "0", "1", "0", "1", "0">>) @@
    (<<"D", "+", "1">> :> <<"0", "0", "1", "1", "1", "1", "1">>) @@
    (<<"M", "+", "1">> :> <<"1", "1", "1", "0", "1", "1", "1">>)

jump_map ==
    (<<"J", "M", "P">> :> <<"1", "1", "1">>) @@
    (<<"J", "E", "Q">> :> <<"0", "1", "0">>) @@
    (<<"J", "L", "E">> :> <<"1", "1", "0">>)

(***************************************************************************)
(* Instruction Encoder.                                                    *)
(***************************************************************************)
Panic == [panic |-> TRUE, val |-> <<>>]

Ok(v) == [panic |-> FALSE, val |-> v]

\* ADecoder::decode
ADecoder_decode(instruct_fields, flags) ==
    IF Len(instruct_fields) = 0 THEN Panic
    ELSE LET address == ParseI32(instruct_fields[1])
         IN  IF ~address.ok THEN Panic
             ELSE Ok(<<"0">> \o Format015b(address.val))

\* CDecoder::decode with the dest code pushed before the comp code
CDecoder_decode_DestFirst(instruct_fields, flags) ==
    IF "dest" \notin DOMAIN flags \/ "jump" \notin DOMAIN flags THEN Panic
    ELSE
    LET hasDest == flags["dest"]
        hasJump == flags["jump"]
        compAt  == IF hasDest THEN 2 ELSE 1
        last    == Len(instruct_fields)
    IN  IF hasDest /\ (last = 0 \/ instruct_fields[1] \notin DOMAIN dest_map) THEN Panic
        ELSE IF last < compAt \/ instruct_fields[compAt] \notin DOMAIN comp_map THEN Panic
        ELSE IF hasJump /\ instruct_fields[last] \notin DOMAIN jump_map THEN Panic
        ELSE Ok(<<"1", "1", "1">>
                \o (IF hasDest THEN dest_map[instruct_fields[1]] ELSE <<"0", "0", "0">>)
                \o comp_map[instruct_fields[compAt]]
                \o (IF hasJump THEN jump_map[instruct_fields[last]] ELSE <<"0", "0", "0">>))

\* CDecoder::decode
CDecoder_decode(instruct_fields, flags) ==
    IF "dest" \notin DOMAIN flags THEN Panic
    ELSE
    LET hasDest    == flags["dest"]
        comp_index == IF hasDest THEN 1 ELSE 0
        destMiss   == hasDest /\ (Len(instruct_fields) = 0
                                  \/ instruct_fields[1] \notin DOMAIN dest_map)
        dest_bin   == IF hasDest THEN dest_map[instruct_fields[1]]
                      ELSE <<"0", "0", "0">>
        compMiss   == Len(instruct_fields) < comp_index + 1
                      \/ instruct_fields[comp_index + 1] \notin DOMAIN comp_map
        comp_bin   == comp_map[instruct_fields[comp_index + 1]]
        jumpKey    == "jump" \in DOMAIN flags
        hasJump    == flags["jump"]
        jumpMiss   == hasJump /\ instruct_fields[Len(instruct_fields)] \notin DOMAIN jump_map
        jump_bin   == IF hasJump THEN jump_map[instruct_fields[Len(instruct_fields)]]
                      ELSE <<"0", "0", "0">>
    IN  IF destMiss THEN Panic
        ELSE IF compMiss THEN Panic
        ELSE IF ~jumpKey THEN Panic
        ELSE IF jumpMiss THEN Panic
        ELSE Ok(<<"1", "1", "1">> \o comp_bin \o dest_bin \o jump_bin)

(***************************************************************************)
(* Line Classifier.                                                        *)
(***************************************************************************)
\* parse_line: returns <<split_line, info_map>>
parse_line(line) ==
    IF StartsWith(line, {"@"})
    THEN LET trimmed_line == TrimLeftMatches(line, "@")
             split_line   == Split(trimmed_line, {" "})
         IN  <<Truncate(split_line, 1), [a_instruction |-> TRUE]>>
    ELSE LET dest == Contains(line, "=")
             jump == Contains(line, ";")
             max_c_fields == 3 - (IF dest THEN 0 ELSE 1) - (IF jump THEN 0 ELSE 1)
             split_line == Split(line, {"=", ";", " "})
         IN  <<Truncate(split_line, max_c_fields),
               [a_instruction |-> FALSE, dest |-> dest, jump |-> jump]>>

(***************************************************************************)
(* Symbol Table.                                                           *)
(***************************************************************************)
RECURSIVE LoadPredef(_, _, _)
\* SymbolTable::new, the loop over the lines of the predefined-symbol file
LoadPredef(file, k, map) ==
    IF k > Len(file) THEN Ok(map)
    ELSE LET split_line == Split(file[k], {" "})
             symbol     == split_line[1]
         IN  IF Len(split_line) < 2 THEN Panic
             ELSE LET num == ParseI32(split_line[2])
                  IN  IF ~num.ok THEN Panic
                      ELSE LoadPredef(file, k + 1, Insert(map, symbol, num.val))

RECURSIVE InsertR(_, _)
\* SymbolTable::new, the loop "for num in 0..16"
InsertR(map, num) ==
    IF num >= 16 THEN map
    ELSE InsertR(Insert(map, <<"R">> \o ToDecimal(num), num), num + 1)

\* SymbolTable::new, the hard-coded inserts that follow the file loop
InsertHardCoded(map) ==
    LET m1 == Insert(map, <<"S", "P">>, 0)
        m2 == Insert(m1, <<"L", "C", "L">>, 1)
        m3 == Insert(m2, <<"A", "R", "G">>, 2)
        m4 == Insert(m3, <<"T", "H", "I", "S">>, 3)
        m5 == Insert(m4, <<"T", "H", "A", "T">>, 4)
        m6 == Insert(m5, <<"S", "C", "R", "E", "E", "N">>, 16384)
        m7 == Insert(m6, <<"K", "B", "D">>, 24576)
    IN  InsertR(m7, 0)

\* SymbolTable::new with the file read after the hard-coded inserts
SymbolTable_new_FileLast(file) ==
    LoadPredef(file, 1, InsertHardCoded(EmptyMap))

\* SymbolTable::new
SymbolTable_new(file) ==
    LET loaded == LoadPredef(file, 1, EmptyMap)
    IN  IF loaded.panic THEN Panic ELSE Ok(InsertHardCoded(loaded.val))

RECURSIVE TrimSpaces(_)
\* str::trim for spaces: the line without its leading and trailing spaces
TrimSpaces(l) ==
    IF l = <<>> THEN l
    ELSE IF l[1] = " " THEN TrimSpaces(Tail(l))
    ELSE IF l[Len(l)] = " " THEN TrimSpaces(SubSeq(l, 1, Len(l) - 1))
    ELSE l

\* parse_label_in_line with the line trimmed before it is looked at
parse_label_in_line_Trimmed(map, line, ln) ==
    LET t == TrimSpaces(line)
    IN  IF StartsWith(t, {"/"}) THEN [map |-> map, line_num |-> ln]
        ELSE IF StartsWith(t, {"("})
        THEN LET label == Split(t, {"(", ")", " "})[2]
             IN  IF label \notin DOMAIN map
                 THEN [map |-> Insert(map, label, ln), line_num |-> ln]
                 ELSE [map |-> map, line_num |-> ln]
        ELSE [map |-> map, line_num |-> ln + 1]

\* parse_label_in_line with a label line counted as a ROM line
parse_label_in_line_CountsLabel(map, line, ln) ==
    IF StartsWith(line, {" ", "/"}) THEN [map |-> map, line_num |-> ln]
    ELSE IF StartsWith(line, {"("})
    THEN LET label == Split(line, {"(", ")", " "})[2]
         IN  IF label \notin DOMAIN map
             THEN [map |-> Insert(map, label, ln), line_num |-> ln + 1]
             ELSE [map |-> map, line_num |-> ln + 1]
    ELSE [map |-> map, line_num |-> ln + 1]

\* parse_label_in_line without the contains_key test
parse_label_in_line_Overwrite(map, line, ln) ==
    IF StartsWith(line, {" ", "/"}) THEN [map |-> map, line_num |-> ln]
    ELSE IF StartsWith(line, {"("})
    THEN [map |-> Insert(map, Split(line, {"(", ")", " "})[2], ln), line_num |-> ln]
    ELSE [map |-> map, line_num |-> ln + 1]

\* SymbolTable::parse_label_in_line: returns the table and the new line_num
parse_label_in_line(map, line, ln) ==
    IF StartsWith(line, {" ", "/"}) THEN [map |-> map, line_num |-> ln]
    ELSE IF StartsWith(line, {"("})
    THEN LET split_line == Split(line, {"(", ")", " "})
             label      == split_line[2]
         IN  IF label \notin DOMAIN map
             THEN [map |-> Insert(map, label, ln), line_num |-> ln]
             ELSE [map |-> map, line_num |-> ln]
    ELSE [map |-> map, line_num |-> ln + 1]

\* parse_variable_in_line with next_mem advanced for every symbolic operand
parse_variable_in_line_AlwaysAdvance(map, line, nm, intm) ==
    IF StartsWith(line, {" ", "/", "("})
    THEN [map |-> map, next_mem |-> nm, intm |-> intm]
    ELSE IF StartsWith(line, {"@"})
    THEN LET variable == Split(line, {"@", " "})[2]
         IN  IF ~ParseI32(variable).ok
             THEN LET map2 == IF variable \notin DOMAIN map
                              THEN Insert(map, variable, nm) ELSE map
                  IN  [map |-> map2, next_mem |-> nm + 1,
                       intm |-> Append(intm, <<"@">> \o ToDecimal(map2[variable]))]
             ELSE [map |-> map, next_mem |-> nm, intm |-> Append(intm, line)]
    ELSE [map |-> map, next_mem |-> nm, intm |-> Append(intm, line)]

\* parse_variable_in_line without the write of a numeric address line
parse_variable_in_line_DropsLiteral(map, line, nm, intm) ==
    IF StartsWith(line, {" ", "/", "("})
    THEN [map |-> map, next_mem |-> nm, intm |-> intm]
    ELSE IF StartsWith(line, {"@"})
    THEN LET variable == Split(line, {"@", " "})[2]
         IN  IF ~ParseI32(variable).ok
             THEN LET fresh == variable \notin DOMAIN map
                      map2  == IF fresh THEN Insert(map, variable, nm) ELSE map
                  IN  [map |-> map2, next_mem |-> IF fresh THEN nm + 1 ELSE nm,
                       intm |-> Append(intm, <<"@">> \o ToDecimal(map2[variable]))]
             ELSE [map |-> map, next_mem |-> nm, intm |-> intm]
    ELSE [map |-> map, next_mem |-> nm, intm |-> Append(intm, line)]

\* SymbolTable::parse_variable_in_line: returns the table, the new next_mem
\* and the intermediate file after the write
parse_variable_in_line(map, line, nm, intm) ==
    IF StartsWith(line, {" ", "/", "("})
    THEN [map |-> map, next_mem |-> nm, intm |-> intm]
    ELSE IF StartsWith(line, {"@"})
    THEN LET split_line == Split(line, {"@", " "})
             variable   == split_line[2]
         IN  IF ~ParseI32(variable).ok
             THEN LET fresh == variable \notin DOMAIN map
                      map2  == IF fresh THEN Insert(map, variable, nm) ELSE map
                      nm2   == IF fresh THEN nm + 1 ELSE nm
                  IN  [map |-> map2, next_mem |-> nm2,
                       intm |-> Append(intm, <<"@">> \o ToDecimal(map2[variable]))]
             ELSE [map |-> map, next_mem |-> nm, intm |-> Append(intm, line)]
    ELSE [map |-> map, next_mem |-> nm, intm |-> Append(intm, line)]

(***************************************************************************)
(* Inputs: the source lines an .asm file is drawn from and the             *)
(* predefined-symbol files.                                                *)
(***************************************************************************)
SourceLines ==
    { <<"@", "5">>,                          \* numeric operand
      <<"@", "i">>,                          \* variable
      <<"@", "j">>,                          \* another variable
      <<"@", "L">>,                          \* reference to the label L
      <<"(", "L", ")">>,                     \* label definition
      <<"(", "S", "P", ")">>,                \* label named like a predefined symbol
      <<"@", "S", "P">>,                     \* predefined symbol
      <<"M", "=", "0">>,                     \* compute instruction
      <<"X">>,                               \* compute line, unknown mnemonic
      <<"@", "-", "1">>,                     \* negative literal
      <<"@", "3", "2", "7", "6", "8">>,      \* literal that needs 16 bits
      <<"/", "/">>,                          \* comment-only line
      <<"@">>,                               \* address line, empty symbol name
      <<"(", ")">>,                          \* label line, empty label name
      <<" ", "(", "L", ")">> }               \* label definition after a space

RECURSIVE SeqsUpTo(_, _)
SeqsUpTo(S, n) ==
    IF n = 0 THEN {<<>>}
    ELSE LET shorter == SeqsUpTo(S, n - 1)
         IN  shorter \cup {Append(q, x) : q \in {r \in shorter : Len(r) = n - 1}, x \in S}

PredefFiles ==
    { <<>>,
      << <<"S", "P", " ", "7">>, <<"R", "3", " ", "9">>, <<"i", " ", "5">> >>,
      << <<"K", "B", "D">> >> }

(***************************************************************************)
(* The driver: main's body for one assembled unit.                         *)
(***************************************************************************)
Init ==
    /\ pc = "new"
    /\ predef_file \in PredefFiles
    /\ asm_file \in SeqsUpTo(SourceLines, MaxLines) \ {<<>>}
    /\ symbol_map = EmptyMap
    /\ idx = 1
    /\ line_num = 0
    /\ next_mem = 16
    /\ intm_file = <<>>
    /\ writer = <<>>
    /\ bin_file = <<>>
    /\ unwrapped_line = <<>>
    /\ parsed_line = <<>>
    /\ info_map = EmptyMap
    /\ bin_line = <<>>

\* main: SymbolTable::new(predef_file)
New ==
    /\ pc = "new"
    /\ LET r == SymbolTable_new(predef_file)
       IN  /\ pc' = IF r.panic THEN "panic" ELSE "pass1"
           /\ symbol_map' = IF r.panic THEN symbol_map ELSE r.val
    /\ UNCHANGED <<predef_file, asm_file, idx, line_num, next_mem, intm_file,
                   writer, bin_file, unwrapped_line, parsed_line, info_map,
                   bin_line>>

\* parse_file: one iteration of the first loop
Pass1Step ==
    /\ pc = "pass1"
    /\ idx <= Len(asm_file)
    /\ LET line == asm_file[idx]
           r    == IF line = <<>> THEN [map |-> symbol_map, line_num |-> line_num]
                   ELSE parse_label_in_line(symbol_map, line, line_num)
       IN  /\ symbol_map' = r.map
           /\ line_num' = r.line_num
    /\ idx' = idx + 1
    /\ UNCHANGED <<pc, predef_file, asm_file, next_mem, intm_file, writer,
                   bin_file, unwrapped_line, parsed_line, info_map, bin_line>>

\* parse_file: the first loop ends, asm_file.seek(SeekFrom::Start(0))
Pass1End ==
    /\ pc = "pass1"
    /\ idx > Len(asm_file)
    /\ pc' = "pass2"
    /\ idx' = 1
    /\ UNCHANGED <<predef_file, asm_file, symbol_map, line_num, next_mem,
                   intm_file, writer, bin_file, unwrapped_line, parsed_line,
                   info_map, bin_line>>

\* parse_file: one iteration of the second loop
Pass2Step ==
    /\ pc = "pass2"
    /\ idx <= Len(asm_file)
    /\ LET line == asm_file[idx]
           r    == IF line = <<>>
                   THEN [map |-> symbol_map, next_mem |-> next_mem, intm |-> intm_file]
                   ELSE parse_variable_in_line(symbol_map, line, next_mem, intm_file)
       IN  /\ symbol_map' = r.map
           /\ next_mem' = r.next_mem
           /\ intm_file' = r.intm
    /\ idx' = idx + 1
    /\ UNCHANGED <<pc, predef_file, asm_file, line_num, writer, bin_file,
                   unwrapped_line, parsed_line, info_map, bin_line>>

\* parse_file returns; main opens the .intm file and creates the .hack file
Pass2End ==
    /\ pc = "pass2"
    /\ idx > Len(asm_file)
    /\ pc' = "main"
    /\ idx' = 1
    /\ UNCHANGED <<predef_file, asm_file, symbol_map, line_num, next_mem,
                   intm_file, writer, bin_file, unwrapped_line, parsed_line,
                   info_map, bin_line>>

\* main: one iteration of "for line in reader.lines()".  A panic in decode
\* unwinds main, and dropping the BufWriter flushes what it holds.
MainStep ==
    /\ pc = "main"
    /\ idx <= Len(intm_file)
    /\ LET line   == intm_file[idx]
           parsed == parse_line(line)
           r      == IF parsed[2]["a_instruction"]
                     THEN ADecoder_decode(parsed[1], parsed[2])
                     ELSE CDecoder_decode(parsed[1], parsed[2])
       IN  /\ unwrapped_line' = line
           /\ parsed_line' = parsed[1]
           /\ info_map' = parsed[2]
           /\ IF r.panic
              THEN /\ pc' = "panic"
                   /\ bin_file' = bin_file \o writer
                   /\ writer' = <<>>
                   /\ UNCHANGED <<bin_line, idx>>
              ELSE /\ bin_line' = r.val
                   /\ writer' = Append(writer, r.val)
                   /\ idx' = idx + 1
                   /\ UNCHANGED <<pc, bin_file>>
    /\ UNCHANGED <<predef_file, asm_file, symbol_map, line_num, next_mem,
                   intm_file>>

\* main: the loop ends and the BufWriter is dropped, which flushes it
MainEnd ==
    /\ pc = "main"
    /\ idx > Len(intm_file)
    /\ pc' = "done"
    /\ bin_file' = bin_file \o writer
    /\ writer' = <<>>
    /\ UNCHANGED <<predef_file, asm_file, symbol_map, idx, line_num, next_mem,
                   intm_file, unwrapped_line, parsed_line, info_map, bin_line>>

Next ==
    \/ New
    \/ Pass1Step
    \/ Pass1End
    \/ Pass2Step
    \/ Pass2End
    \/ MainStep
    \/ MainEnd

Spec == Init /\ [][Next]_vars

(***************************************************************************)
(* The unit tests of lib.rs: parse_line and the two decoders called        *)
(* directly on an input.                                                   *)
(***************************************************************************)
AOperands == { <<"1", "0", "0">>, <<"4">>, <<"i">> }

DestOpts == { <<>>, <<"M">>, <<"M", "D">> }

Comps == { <<"0">>, <<"D", "+", "1">>, <<"M", "+", "1">> }

JumpOpts == { <<>>, <<"J", "M", "P">>, <<"J", "E", "Q">> }

\* trailing comments: none, "// c", "//=" and "//;", each after a space
Comments ==
    { <<>>,
      <<" ", "/", "/", " ", "c">>,
      <<" ", "/", "/", "=">>,
      <<" ", "/", "/", ";">> }

AInstr(tok) == <<"@">> \o tok

CInstr(d, c, j) ==
    (IF d = <<>> THEN <<>> ELSE d \o <<"=">>) \o c
        \o (IF j = <<>> THEN <<>> ELSE <<";">> \o j)

TestLines ==
    {AInstr(t) \o cm : t \in AOperands, cm \in Comments}
    \cup {CInstr(d[1], d[2], d[3]) \o cm :
              d \in DestOpts \X Comps \X JumpOpts, cm \in Comments}

AFieldTokens ==
    { <<"4">>, <<"1", "0", "0">>, <<"3", "2", "7", "6", "7">>,
      <<"3", "2", "7", "6", "8">>, <<"0">>, <<"i">> }

Mnemonics ==
    { <<"M">>, <<"M", "D">>, <<"0">>, <<"D", "+", "1">>,
      <<"J", "M", "P">>, <<"J", "E", "Q">>, <<"X">> }

InitUnit ==
    /\ predef_file = <<>>
    /\ asm_file = <<>>
    /\ symbol_map = EmptyMap
    /\ idx = 1
    /\ line_num = 0
    /\ next_mem = 16
    /\ intm_file = <<>>
    /\ writer = <<>>
    /\ bin_file = <<>>
    /\ bin_line = <<>>
    /\ \/ /\ pc = "parse_line"
          /\ unwrapped_line \in TestLines
          /\ parsed_line = <<>>
          /\ info_map = EmptyMap
       \/ /\ pc = "a_decode"
          /\ unwrapped_line = <<>>
          /\ parsed_line \in {<<t>> : t \in AFieldTokens}
          /\ info_map = EmptyMap
       \/ /\ pc = "c_decode"
          /\ unwrapped_line = <<>>
          /\ parsed_line \in SeqsUpTo(Mnemonics, MaxFields)
          /\ info_map \in [dest : BOOLEAN, jump : BOOLEAN]

\* tests::parse_a_instruction*, parse_c_instruction*: parse_line(line)
CallParseLine ==
    /\ pc = "parse_line"
    /\ LET parsed == parse_line(unwrapped_line)
       IN  /\ parsed_line' = parsed[1]
           /\ info_map' = parsed[2]
    /\ pc' = "parse_line_ret"
    /\ UNCHANGED <<predef_file, asm_file, symbol_map, idx, line_num, next_mem,
                   intm_file, writer, bin_file, unwrapped_line, bin_line>>

\* tests::a_decode_test*: ADecoder::decode(fields, &HashMap::new())
CallADecode ==
    /\ pc = "a_decode"
    /\ LET r == ADecoder_decode(parsed_line, info_map)
       IN  /\ pc' = IF r.panic THEN "a_decode_panic" ELSE "a_decode_ret"
           /\ bin_line' = r.val
    /\ UNCHANGED <<predef_file, asm_file, symbol_map, idx, line_num, next_mem,
                   intm_file, writer, bin_file, unwrapped_line, parsed_line,
                   info_map>>

\* tests::c_decode_*: CDecoder::decode(fields, &info_map)
CallCDecode ==
    /\ pc = "c_decode"
    /\ LET r == CDecoder_decode(parsed_line, info_map)
       IN  /\ pc' = IF r.panic THEN "c_decode_panic" ELSE "c_decode_ret"
           /\ bin_line' = r.val
    /\ UNCHANGED <<predef_file, asm_file, symbol_map, idx, line_num, next_mem,
                   intm_file, writer, bin_file, unwrapped_line, parsed_line,
                   info_map>>

NextUnit ==
    \/ CallParseLine
    \/ CallADecode
    \/ CallCDecode

SpecUnit == InitUnit /\ [][NextUnit]_vars

(***************************************************************************)
(* Properties of the encoder and of the classifier (checked under          *)
(* SpecUnit).                                                              *)
(***************************************************************************)
IsBinaryWord(w) == Len(w) = 16 /\ \A k \in 1..Len(w) : w[k] \in {"0", "1"}

\* C1: every string a decoder returns (ADecoder::decode on an integer
\* operand token, CDecoder::decode on mnemonics of the dictionaries) has
\* exactly 16 characters, each '0' or '1'.
C1_EncodingIs16Bits ==
    pc \in {"a_decode_ret", "c_decode_ret"} => IsBinaryWord(bin_line)

\* the fields CDecoder::decode is specified to look up
C6_CompField == IF info_map["dest"] THEN 2 ELSE 1

C6_Known ==
    /\ Len(parsed_line) >= C6_CompField
    /\ parsed_line[C6_CompField] \in DOMAIN comp_map
    /\ info_map["dest"] => parsed_line[1] \in DOMAIN dest_map
    /\ info_map["jump"] => parsed_line[Len(parsed_line)] \in DOMAIN jump_map

C6_Expected ==
    <<"1", "1", "1">>
        \o comp_map[parsed_line[C6_CompField]]
        \o (IF info_map["dest"] THEN dest_map[parsed_line[1]] ELSE <<"0", "0", "0">>)
        \o (IF info_map["jump"] THEN jump_map[parsed_line[Len(parsed_line)]]
            ELSE <<"0", "0", "0">>)

\* C6: CDecoder::decode returns "111" + comp code + dest code + jump code,
\* the comp code looked up from fields[0] without a dest and from fields[1]
\* with one, the dest code "000" or the entry of fields[0], the jump code
\* "000" or the entry of the last field; a mnemonic missing from its
\* dictionary aborts the call.
C6_ComputeLayout ==
    pc \in {"c_decode_ret", "c_decode_panic"} =>
        IF C6_Known THEN pc = "c_decode_ret" /\ bin_line = C6_Expected
        ELSE pc = "c_decode_panic"

\* a compute instruction with all three parts was encoded
C6_Witness ==
    /\ pc = "c_decode_ret"
    /\ info_map["dest"] /\ info_map["jump"]
    /\ parsed_line = << <<"M", "D">>, <<"D", "+", "1">>, <<"J", "E", "Q">> >>

CFields(d, c, j) ==
    (IF d = <<>> THEN <<>> ELSE <<d>>) \o <<c>> \o (IF j = <<>> THEN <<>> ELSE <<j>>)

\* C7: parse_line of a well-formed instruction followed by a trailing
\* comment returns what parse_line of the instruction alone returns: the
\* operand token of an address line; the tokens [dest] comp [jump] of a
\* compute line with dest and jump set exactly when the part is present.
C7_CommentIgnored ==
    pc = "parse_line_ret" =>
        /\ \A t \in AOperands, cm \in Comments :
               unwrapped_line = AInstr(t) \o cm =>
                   /\ parsed_line = <<t>>
                   /\ info_map = [a_instruction |-> TRUE]
        /\ \A d \in DestOpts, c \in Comps, j \in JumpOpts, cm \in Comments :
               unwrapped_line = CInstr(d, c, j) \o cm =>
                   /\ parsed_line = CFields(d, c, j)
                   /\ info_map = [a_instruction |-> FALSE,
                                  dest |-> d # <<>>, jump |-> j # <<>>]

(***************************************************************************)
(* Vocabulary of the pipeline properties, read off the source text of the  *)
(* assembled unit.                                                         *)
(***************************************************************************)
\* lines no pass looks at: blank, comment-only, or starting with a space
IsSkippedLine(l) == l = <<>> \/ l[1] \in {" ", "/"}

IsLabelLine(l) == l # <<>> /\ l[1] = "("

IsInstructionLine(l) == ~IsSkippedLine(l) /\ ~IsLabelLine(l)

IsAddressLine(l) == IsInstructionLine(l) /\ l[1] = "@"

\* first position of one of the characters cs in l at or after position k,
\* Len(l) + 1 when there is none
FirstOf(l, cs, k) ==
    IF \E n \in k..Len(l) : l[n] \in cs
    THEN CHOOSE n \in k..Len(l) : l[n] \in cs /\ \A m \in k..(n - 1) : l[m] \notin cs
    ELSE Len(l) + 1

\* the name between the label markers
LabelName(l) == SubSeq(l, 2, FirstOf(l, {")"}, 2) - 1)

\* the operand text after the address marker, up to a space
OperandOf(l) == SubSeq(l, 2, FirstOf(l, {" "}, 2) - 1)

\* a non-negative integer literal: one or more decimal digits
IsNatLiteral(tok) == Len(tok) > 0 /\ \A k \in 1..Len(tok) : IsDigit(tok[k])

\* ROM line number of position p: the instruction lines before it
RomAddress(p) == Cardinality({q \in 1..(p - 1) : IsInstructionLine(asm_file[q])})

LabelPositions == {p \in 1..Len(asm_file) : IsLabelLine(asm_file[p])}

LabelNames == {LabelName(asm_file[p]) : p \in LabelPositions}

\* names bound when SymbolTable::new returns
BoundAtNew == DOMAIN SymbolTable_new(predef_file).val

\* the line pass 2 is expected to emit for an instruction line
EmittedFor(l) ==
    IF IsAddressLine(l) /\ ~ParseI32(OperandOf(l)).ok
    THEN <<"@">> \o ToDecimal(symbol_map[OperandOf(l)])
    ELSE l

AfterParseFile == pc \in {"main", "done"}

(***************************************************************************)
(* Properties of the two passes and of the driver (checked under Spec).    *)
(***************************************************************************)
\* C2: after parse_file, a label whose name was unbound before its first
\* (LABEL) line is bound to the ROM line number of the instruction that
\* follows that line, which is that instruction's zero-based position in
\* the emitted stream, and every address instruction naming the label, before
\* or after the definition, is emitted with that number as operand.
C2_LabelResolution ==
    AfterParseFile =>
        \A p \in LabelPositions :
            LET name == LabelName(asm_file[p])
                following == {n \in (p + 1)..Len(asm_file) : IsInstructionLine(asm_file[n])}
            IN  (/\ name \notin BoundAtNew
                 /\ \A q \in LabelPositions : q < p => LabelName(asm_file[q]) # name)
                =>
                /\ name \in DOMAIN symbol_map
                /\ symbol_map[name] = RomAddress(p)
                /\ following # {} =>
                       LET n == CHOOSE n \in following : \A m \in following : n <= m
                       IN  /\ symbol_map[name] + 1 <= Len(intm_file)
                           /\ intm_file[symbol_map[name] + 1] = EmittedFor(asm_file[n])
                /\ \A q \in 1..Len(asm_file) :
                       (IsAddressLine(asm_file[q]) /\ OperandOf(asm_file[q]) = name)
                       => intm_file[RomAddress(q) + 1]
                              = <<"@">> \o ToDecimal(RomAddress(p))

\* a label was referenced before its definition, an instruction follows it
C2_Witness ==
    /\ AfterParseFile
    /\ asm_file = << <<"@", "L">>, <<"(", "L", ")">>, <<"M", "=", "0">> >>
    /\ symbol_map[<<"L">>] = 1
    /\ intm_file = << <<"@", "1">>, <<"M", "=", "0">> >>

RECURSIVE FirstUses(_, _, _)
\* the operands of the address lines of file[k..] that are neither i32
\* literals nor bound before pass 2, without repetition, in order
FirstUses(file, k, seen) ==
    IF k > Len(file) THEN <<>>
    ELSE LET l   == file[k]
             tok == OperandOf(l)
         IN  IF /\ IsAddressLine(l)
                /\ ~ParseI32(tok).ok
                /\ tok \notin BoundAtNew \cup LabelNames \cup seen
             THEN <<tok>> \o FirstUses(file, k + 1, seen \cup {tok})
             ELSE FirstUses(file, k + 1, seen)

\* the lines pass 2 has consumed
Pass2Consumed == IF pc = "pass2" THEN SubSeq(asm_file, 1, idx - 1) ELSE asm_file

C3_Allocation ==
    pc \in {"pass2", "main", "done"} =>
        LET fu == FirstUses(Pass2Consumed, 1, {})
        IN  /\ next_mem = 16 + Len(fu)
            /\ \A k \in 1..Len(fu) :
                   fu[k] \in DOMAIN symbol_map /\ symbol_map[fu[k]] = 15 + k
            /\ DOMAIN symbol_map = BoundAtNew \cup LabelNames \cup Range(fu)

C3_Return ==
    pc = "pass2" =>
        \/ next_mem' = next_mem + 1 /\ DOMAIN symbol_map' # DOMAIN symbol_map
        \/ next_mem' = next_mem /\ symbol_map' = symbol_map

C4_Step ==
    pc \in {"pass1", "pass2"} =>
        /\ \A sym \in DOMAIN symbol_map :
               sym \in DOMAIN symbol_map' /\ symbol_map'[sym] = symbol_map[sym]
        /\ (/\ pc = "pass1"
            /\ idx <= Len(asm_file)
            /\ IsLabelLine(asm_file[idx])
            /\ LabelName(asm_file[idx]) \in DOMAIN symbol_map)
           => symbol_map' = symbol_map

\* C4: after SymbolTable::new, no step of either pass changes the value of
\* a bound symbol or removes one; a (LABEL) line for a name that is
\* already bound leaves the table as it is.
C4_FirstBindingKept == [][C4_Step]_vars

\* a second (L) line was consumed at a ROM address other than the first's
C4_Witness ==
    /\ pc = "pass1"
    /\ idx = 4
    /\ asm_file = << <<"(", "L", ")">>, <<"M", "=", "0">>, <<"(", "L", ")">> >>
    /\ line_num = 1
    /\ symbol_map[<<"L">>] = 0

\* C5: whatever the predefined-symbol file holds, the table SymbolTable::new
\* returns maps SP=0, LCL=1, ARG=2, THIS=3, THAT=4, SCREEN=16384,
\* KBD=24576 and Rn=n for n in 0..15.
C5_PredefinedSymbols ==
    (pc = "pass1" /\ idx = 1) =>
        /\ {<<"S", "P">>, <<"L", "C", "L">>, <<"A", "R", "G">>,
            <<"T", "H", "I", "S">>, <<"T", "H", "A", "T">>,
            <<"S", "C", "R", "E", "E", "N">>, <<"K", "B", "D">>}
               \subseteq DOMAIN symbol_map
        /\ symbol_map[<<"S", "P">>] = 0
        /\ symbol_map[<<"L", "C", "L">>] = 1
        /\ symbol_map[<<"A", "R", "G">>] = 2
        /\ symbol_map[<<"T", "H", "I", "S">>] = 3
        /\ symbol_map[<<"T", "H", "A", "T">>] = 4
        /\ symbol_map[<<"S", "C", "R", "E", "E", "N">>] = 16384
        /\ symbol_map[<<"K", "B", "D">>] = 24576
        /\ \A n \in 0..15 :
               /\ (<<"R">> \o ToDecimal(n)) \in DOMAIN symbol_map
               /\ symbol_map[<<"R">> \o ToDecimal(n)] = n

\* new returned for a file that gives SP and R3 other values
C5_Witness ==
    /\ pc = "pass1" /\ idx = 1
    /\ \E k \in 1..Len(predef_file) : predef_file[k] = <<"S", "P", " ", "7">>
    /\ \E k \in 1..Len(predef_file) : predef_file[k] = <<"R", "3", " ", "9">>

\* the word an instruction line of the source stands for
EncodingOf(l) ==
    IF l[1] = "@"
    THEN LET tok == OperandOf(l)
             v   == IF ParseI32(tok).ok THEN ParseI32(tok).val ELSE symbol_map[tok]
         IN  <<"0">> \o Format015b(v)
    ELSE CDecoder_decode(parse_line(l)[1], parse_line(l)[2]).val

\* C8: the output holds one word per instruction line that is not a label
\* definition, none for a label definition, and its k-th word is the
\* encoding of the k-th such line of the source.
C8_OneWordPerInstruction ==
    AfterParseFile =>
        LET instrs == SelectSeq(asm_file, IsInstructionLine)
            out    == bin_file \o writer
        IN  /\ Len(intm_file) = Len(instrs)
            /\ Len(out) <= Len(instrs)
            /\ pc = "main" => Len(out) = idx - 1
            /\ pc = "done" => bin_file = out /\ Len(out) = Len(instrs)
            /\ \A k \in 1..Len(out) : out[k] = EncodingOf(instrs[k])

\* a unit with a label definition between two instructions was assembled
C8_Witness ==
    /\ pc = "done"
    /\ asm_file = << <<"@", "L">>, <<"(", "L", ")">>, <<"M", "=", "0">> >>
    /\ Len(bin_file) = 2

\* C9: in the lines pass 2 produces every address operand is a
\* non-negative integer, and every compute line is emitted unchanged.
C9_ResolvedOperands ==
    pc \in {"pass2", "main", "done"} =>
        LET instrs == SelectSeq(Pass2Consumed, IsInstructionLine)
        IN  /\ Len(intm_file) = Len(instrs)
            /\ \A k \in 1..Len(intm_file) :
                   IF instrs[k][1] = "@"
                   THEN /\ intm_file[k][1] = "@"
                        /\ IsNatLiteral(OperandOf(intm_file[k]))
                        /\ IsNatLiteral(OperandOf(instrs[k]))
                               => intm_file[k] = instrs[k]
                        /\ ~IsNatLiteral(OperandOf(instrs[k]))
                               => intm_file[k] = <<"@">> \o
                                      ToDecimal(symbol_map[OperandOf(instrs[k])])
                   ELSE intm_file[k] = instrs[k]

\* C10: when a fatal error stops the processing of a unit, none of the
\* words of its earlier instructions has reached its output.
C10_NoPartialOutput ==
    pc = "panic" => bin_file = <<>>

\* the lines of the source whose name the passes have extracted so far:
\* the label lines pass 1 has consumed and the address lines pass 2 has
CountLabelsSeen == IF pc = "pass1" THEN idx - 1 ELSE Len(asm_file)

CountAddressesSeen ==
    IF pc = "pass1" THEN 0 ELSE IF pc = "pass2" THEN idx - 1 ELSE Len(asm_file)

EmptyNameSeen ==
    \/ \E k \in 1..CountLabelsSeen :
           IsLabelLine(asm_file[k]) /\ LabelName(asm_file[k]) = <<>>
    \/ \E k \in 1..CountAddressesSeen :
           IsAddressLine(asm_file[k]) /\ OperandOf(asm_file[k]) = <<>>

\* C11: a line whose operand or label token is empty ("@", "()") is fatal
\* for the symbol-resolution passes: the pass does not go on past it, the
\* empty name is never bound and next_mem is not consumed for it.
C11_EmptyNameIsFatal ==
    pc \in {"pass1", "pass2", "main", "done"} =>
        /\ ~EmptyNameSeen
        /\ <<>> \notin DOMAIN symbol_map

\* the line at position k is a label definition once trimmed
IsTrimmedLabelAt(k) == StartsWith(TrimSpaces(asm_file[k]), {"("})

\* the line at position k is a comment-only line once trimmed
IsTrimmedCommentAt(k) == StartsWith(TrimSpaces(asm_file[k]), {"/"})

\* C12 as stated: in pass 1 a line is a label definition exactly when its
\* first character after trimming is '('; such a line binds its name, if
\* unbound, and leaves the ROM counter alone; every other line adds 1, so
\* the counter is the number of non-label lines consumed.  (Comment-only
\* lines, which are stripped before the passes, are left out of the count.)
C12_TrimmedLabelRule ==
    pc \in {"pass1", "pass2", "main", "done"} =>
        /\ line_num = Cardinality({k \in 1..CountLabelsSeen :
                           ~IsTrimmedLabelAt(k) /\ ~IsTrimmedCommentAt(k)})
        /\ \A k \in 1..CountLabelsSeen :
               IsTrimmedLabelAt(k) =>
                   LabelName(TrimSpaces(asm_file[k])) \in DOMAIN symbol_map

\* C12 as the code has it: a line starting with a space or '/' is skipped,
\* binding nothing and leaving the ROM counter alone; any other line is a
\* label definition exactly when its first character, untrimmed, is '(';
\* a label definition binds its name to the current counter if unbound
\* and leaves the counter alone; every other line adds 1, so the counter
\* is the number of consumed lines that are neither label nor skipped.
C12_UntrimmedLabelRule ==
    pc \in {"pass1", "pass2"} =>
        LET seen == 1..CountLabelsSeen
            labelsSeen == {k \in seen : IsLabelLine(asm_file[k])}
            atNew == BoundAtNew
        IN  /\ line_num = Cardinality({k \in seen : IsInstructionLine(asm_file[k])})
            /\ \A k \in labelsSeen :
                   LET name == LabelName(asm_file[k])
                   IN  /\ name \in DOMAIN symbol_map
                       /\ (/\ name \notin atNew
                           /\ \A q \in labelsSeen : q < k => LabelName(asm_file[q]) # name)
                          => symbol_map[name] = RomAddress(k)
            /\ pc = "pass1" =>
                   DOMAIN symbol_map
                       = atNew \cup {LabelName(asm_file[k]) : k \in labelsSeen}

\* pass 1 consumed a label definition after a space, an instruction and a
\* label definition at the start of its line
C12_Witness ==
    /\ pc = "pass2"
    /\ asm_file = << <<" ", "(", "L", ")">>, <<"M", "=", "0">>, <<"(", "L", ")">> >>
    /\ line_num = 1
    /\ symbol_map[<<"L">>] = 1

====
